---- MODULE Spec2Model ----
(***************************************************************************)
(* The SMS decision path of the backend: the request handler               *)
(* make_sms_decision (app/routers/sms.py), the orchestrator                *)
(* SMSDecisionService.make_decision and the completion client              *)
(* OpenAIService.chat_completion with its tenacity retry decorator         *)
(* (app/services.py), and the sms_logs table (app/models.py,               *)
(* app/repositories.py).                                                   *)
(*                                                                         *)
(* Texts are sequences of one-character strings, so that str.lower() is    *)
(* computed character by character.  A provider response text is a         *)
(* sequence of JSON tokens, so that json.loads is a parser and not the     *)
(* identity.                                                               *)
(***************************************************************************)
EXTENDS Integers, Sequences, FiniteSets, TLC

VARIABLES
    users,          \* ids of the rows of table users
    sms_logs,       \* rows of table sms_logs, in insertion order
    pc,             \* position of the request in flight
    request,        \* SMSDecisionRequest being handled
    attempts,       \* provider invocations made by the current chat_completion call
    waited,         \* seconds slept by the retry decorator in the current call
    outcomes,       \* what the provider did at each attempt of the current call
    completion,     \* how the chat_completion call ended (result or exception)
    decision,       \* how make_decision ended (SMSDecision or exception)
    http,           \* response emitted by the handler
    nrequests,      \* requests received so far
    apierror_ctor,  \* whether APIError(message) can be constructed in this build
    endpoint,       \* handler of the request in flight: "sms" or "conversation"
    valid,          \* what the last call of validate_response returned
    conversation,   \* how process_conversation ended (result or exception)
    conversation_logs,  \* rows of table conversation_logs, in insertion order
    call_logs,      \* rows of table call_logs, in insertion order
    preferences,    \* rows of table user_preferences
    profiles,       \* username and email of every row of table users
    _openai_service,    \* the module global of dependencies.py (0 is None)
    instances,      \* the OpenAIService instances constructed so far
    closed,         \* how often close() was called on each instance
    dep_pc,         \* where each threadpool thread is in get_openai_service
    dep_new,        \* the instance a thread constructed and has not stored yet
    service_of,     \* the orchestrator each thread made, and its openai_service
    lifespan_pc,    \* where the lifespan of the app is
    op,             \* the handler that was entered last, and its arguments
    settings,       \* the retry settings of config.py, as the environment set them
    fk_enforced,    \* whether the database enforces foreign keys
    pref_pc,        \* where each concurrent create_preferences request is
    pref_req,       \* the user id and language of each of these requests
    pref_http,      \* the response to each of these requests
    log_rows,       \* a log table that get_by_user_id is applied to
    log_query,      \* the user_id and limit get_by_user_id is called with
    log_result      \* the rows get_by_user_id returned

vars == <<users, sms_logs, pc, request, attempts, waited, outcomes,
          completion, decision, http, nrequests, apierror_ctor,
          endpoint, valid, conversation, conversation_logs,
          call_logs, preferences, profiles,
          _openai_service, instances, closed, dep_pc, dep_new, service_of,
          lifespan_pc, op, settings, fk_enforced, pref_pc, pref_req, pref_http,
          log_rows, log_query, log_result>>

\* The configuration of the process.
config_vars == <<settings, fk_enforced>>

\* The create_preferences requests that run concurrently.
pref_client_vars == <<pref_pc, pref_req, pref_http>>

\* One call of get_by_user_id of a log repository.
query_vars == <<log_rows, log_query, log_result>>

other_vars == <<config_vars, pref_client_vars, query_vars>>

\* The shared completion client and the lifespan; the handlers use the
\* client they were given and change none of this.
service_vars ==
    <<_openai_service, instances, closed, dep_pc, dep_new, service_of, lifespan_pc>>

\* What the conversation and SMS requests leave alone.
store_vars == <<call_logs, preferences, profiles>>

\* What the SMS path leaves alone.
conversation_vars == <<valid, conversation, conversation_logs>>

----------------------------------------------------------------------------
(* Bounds of the model *)

MaxUserId == 1
MaxRequests == 1
MaxProcTime == 2

UserIds == 1..MaxUserId
ProcTimes == 1..MaxProcTime

----------------------------------------------------------------------------
(* Texts *)

yes == <<"y", "e", "s">>
no == <<"n", "o">>
EmptyText == <<>>
Sure == <<"S", "u", "r", "e">>
Unable == <<"U", "n", "a", "b", "l", "e", " ", "t", "o", " ", "p", "r", "o",
            "c", "e", "s", "s", " ", "r", "e", "q", "u", "e", "s", "t">>
SomeText == <<"S", "o", "m", "e", " ", "t", "e", "x", "t">>

UpperCase == <<"A", "B", "C", "D", "E", "F", "G", "H", "I", "J", "K", "L", "M",
               "N", "O", "P", "Q", "R", "S", "T", "U", "V", "W", "X", "Y", "Z">>
LowerCase == <<"a", "b", "c", "d", "e", "f", "g", "h", "i", "j", "k", "l", "m",
               "n", "o", "p", "q", "r", "s", "t", "u", "v", "w", "x", "y", "z">>

lower_char(c) ==
    IF \E i \in DOMAIN UpperCase : UpperCase[i] = c
    THEN LowerCase[CHOOSE i \in DOMAIN UpperCase : UpperCase[i] = c]
    ELSE c

\* A mutation of lower: the text is left as it is.
lower_identity(s) == s

\* str.lower()
lower(s) == [i \in DOMAIN s |-> lower_char(s[i])]

----------------------------------------------------------------------------
(* Python values and the tokens of a JSON text *)

Tok(k) == [k |-> k, s |-> <<>>]
StrTok(s) == [k |-> "string", s |-> s]
NumTok(s) == [k |-> "number", s |-> s]
NullTok == Tok("null")

ScalarKinds == {"string", "number", "null", "true", "false"}

PyStr(s) == [t |-> "str", s |-> s, items |-> <<>>]
PyNone == [t |-> "NoneType", s |-> <<>>, items |-> <<>>]
PyDict(items) == [t |-> "dict", s |-> <<>>, items |-> items]
PyList(items) == [t |-> "list", s |-> <<>>, items |-> items]

\* The Python value of a scalar JSON token, without the items field.
scalar(tok) ==
    CASE tok.k = "string" -> [t |-> "str", s |-> tok.s]
      [] tok.k = "number" -> [t |-> "int", s |-> tok.s]
      [] tok.k = "null" -> [t |-> "NoneType", s |-> <<>>]
      [] OTHER -> [t |-> "bool", s |-> <<tok.k>>]

Loaded(v) == [exc |-> "", val |-> v]
Raised(e) == [exc |-> e, val |-> PyNone]

RECURSIVE scan_members(_, _, _)
\* The members of a JSON object from token i on: string ":" value, then
\* "," and another member, or "}".  Gives the members and the index of "}".
scan_members(toks, i, items) ==
    IF i + 3 > Len(toks) THEN [exc |-> "JSONDecodeError", items |-> <<>>, end |-> 0]
    ELSE IF toks[i].k # "string" \/ toks[i + 1].k # "colon"
            \/ toks[i + 2].k \notin ScalarKinds
    THEN [exc |-> "JSONDecodeError", items |-> <<>>, end |-> 0]
    ELSE LET more == Append(items, [key |-> toks[i].s, val |-> scalar(toks[i + 2])])
         IN CASE toks[i + 3].k = "rbrace" -> [exc |-> "", items |-> more, end |-> i + 3]
              [] toks[i + 3].k = "comma" -> scan_members(toks, i + 4, more)
              [] OTHER -> [exc |-> "JSONDecodeError", items |-> <<>>, end |-> 0]

RECURSIVE scan_elements(_, _, _)
\* The elements of a JSON array from token i on, up to "]".
scan_elements(toks, i, items) ==
    IF i + 1 > Len(toks) THEN [exc |-> "JSONDecodeError", items |-> <<>>, end |-> 0]
    ELSE IF toks[i].k \notin ScalarKinds
    THEN [exc |-> "JSONDecodeError", items |-> <<>>, end |-> 0]
    ELSE LET more == Append(items, [key |-> <<>>, val |-> scalar(toks[i])])
         IN CASE toks[i + 1].k = "rbrack" -> [exc |-> "", items |-> more, end |-> i + 1]
              [] toks[i + 1].k = "comma" -> scan_elements(toks, i + 2, more)
              [] OTHER -> [exc |-> "JSONDecodeError", items |-> <<>>, end |-> 0]

\* json.loads(result["response"]): None is no text (TypeError); a text is
\* one JSON value and nothing after it, or a JSONDecodeError.
json_loads(response) ==
    IF response.none THEN Raised("TypeError")
    ELSE LET toks == response.toks
             n == Len(toks)
         IN IF n = 0 THEN Raised("JSONDecodeError")
            ELSE IF toks[1].k \in ScalarKinds
            THEN IF n = 1
                 THEN Loaded([t |-> scalar(toks[1]).t, s |-> scalar(toks[1]).s,
                              items |-> <<>>])
                 ELSE Raised("JSONDecodeError")
            ELSE IF toks[1].k \in {"lbrace", "lbrack"}
            THEN LET closing == IF toks[1].k = "lbrace" THEN "rbrace" ELSE "rbrack"
                     body == IF n >= 2 /\ toks[2].k = closing
                             THEN [exc |-> "", items |-> <<>>, end |-> 2]
                             ELSE IF toks[1].k = "lbrace"
                                  THEN scan_members(toks, 2, <<>>)
                                  ELSE scan_elements(toks, 2, <<>>)
                 IN IF body.exc # "" \/ body.end # n THEN Raised("JSONDecodeError")
                    ELSE IF toks[1].k = "lbrace" THEN Loaded(PyDict(body.items))
                    ELSE Loaded(PyList(body.items))
            ELSE Raised("JSONDecodeError")

\* dict.get(key, default): the value of the last member with that key.
dict_get(d, key, default) ==
    LET hits == {i \in DOMAIN d.items : d.items[i].key = key}
    IN IF hits = {} THEN default
       ELSE LET last == CHOOSE i \in hits : \A j \in hits : j <= i
            IN [t |-> d.items[last].val.t, s |-> d.items[last].val.s, items |-> <<>>]

decision_key == <<"d", "e", "c", "i", "s", "i", "o", "n">>
reply_key == <<"r", "e", "p", "l", "y">>

----------------------------------------------------------------------------
(* The provider's response texts *)

Text(toks) == [none |-> FALSE, toks |-> toks]
\* message.content of the first choice is None
NoResponse == [none |-> TRUE, toks |-> <<>>]

RECURSIVE member_tokens(_)
member_tokens(ms) ==
    IF ms = <<>> THEN <<>>
    ELSE <<StrTok(ms[1][1]), Tok("colon"), ms[1][2]>>
         \o (IF Len(ms) > 1 THEN <<Tok("comma")>> ELSE <<>>)
         \o member_tokens(Tail(ms))

\* The text of a JSON object with the members ms, each <<key, value token>>.
ObjectText(ms) == Text(<<Tok("lbrace")>> \o member_tokens(ms) \o <<Tok("rbrace")>>)

YesSpellings == {yes, <<"Y", "E", "S">>, <<"Y", "e", "s">>}
NoSpellings == {no, <<"N", "O">>}
OutOfDomain == {<<"m", "a", "y", "b", "e">>, EmptyText}
NonStrings == {NumTok(<<"1">>), NullTok}

DecisionToks == {StrTok(d) : d \in YesSpellings \cup NoSpellings \cup OutOfDomain}
                    \cup NonStrings
ReplyToks == {StrTok(Sure), NullTok}
\* Stands for a field the payload does not have; never part of a text.
Absent == Tok("absent")

other_key == <<"n", "o", "t", "e">>

\* The object texts whose decision field is d and whose reply field is r.
ObjectTextsOf(d, r) ==
    LET dm == IF d = Absent THEN <<>> ELSE <<<<decision_key, d>>>>
        rm == IF r = Absent THEN <<>> ELSE <<<<reply_key, r>>>>
    IN {ObjectText(dm \o rm)}
       \cup (IF d = StrTok(yes) /\ r = StrTok(Sure)
             THEN {ObjectText(rm \o dm),
                   ObjectText(<<<<decision_key, StrTok(no)>>>> \o dm \o rm),
                   ObjectText(<<<<other_key, StrTok(no)>>>> \o dm \o rm)}
             ELSE {})

ObjectTexts ==
    UNION {ObjectTextsOf(d, r) : d \in DecisionToks \cup {Absent},
                                 r \in ReplyToks \cup {Absent}}

\* Texts that are JSON, but not a JSON object.
NonObjectTexts ==
    {Text(<<StrTok(yes)>>), Text(<<NumTok(<<"1">>)>>), Text(<<NullTok>>),
     Text(<<Tok("lbrack"), Tok("rbrack")>>),
     Text(<<Tok("lbrack"), StrTok(yes), Tok("rbrack")>>)}

\* Texts that are not JSON.
MalformedTexts ==
    {Text(<<>>),
     Text(<<Tok("word"), Tok("word")>>),
     Text(<<Tok("lbrace")>>),
     Text(<<Tok("lbrace"), StrTok(decision_key), StrTok(yes), Tok("rbrace")>>),
     Text(<<Tok("lbrace"), StrTok(decision_key), Tok("colon"), StrTok(yes)>>),
     Text(<<Tok("lbrace"), StrTok(decision_key), Tok("colon"), StrTok(yes),
            Tok("comma"), Tok("rbrace")>>),
     Text(ObjectText(<<<<decision_key, StrTok(yes)>>>>).toks \o <<Tok("word")>>),
     Text(<<Tok("word")>> \o ObjectText(<<<<decision_key, StrTok(yes)>>>>).toks)}

Responses == ObjectTexts \cup NonObjectTexts \cup MalformedTexts \cup {NoResponse}

MaxResponseLen == 10000

\* The number of characters a token stands for.
tok_len(tok) ==
    CASE tok.k = "chars" -> tok.s[1]
      [] tok.k = "string" -> Len(tok.s) + 2
      [] tok.k = "number" -> Len(tok.s)
      [] tok.k \in {"null", "true"} -> 4
      [] tok.k = "false" -> 5
      [] OTHER -> 1

RECURSIVE toks_len(_)
toks_len(toks) == IF toks = <<>> THEN 0 ELSE tok_len(toks[1]) + toks_len(Tail(toks))

\* len(response) of a text.
text_len(response) == toks_len(response.toks)

\* A reply of n characters that is no JSON: a run of n letters, written
\* as its length.
Reply(n) ==
    Text(IF n = 0 THEN <<>> ELSE <<[k |-> "chars", s |-> <<n>>]>>)

\* The replies of the provider to a conversation: without a text, of the
\* lengths around the two limits of validate_response, and a JSON object.
ReplyLens == {0, 1, MaxResponseLen - 1, MaxResponseLen}
ReplyOf == [n \in ReplyLens |-> Reply(n)]
Replies == {ReplyOf[n] : n \in ReplyLens}
               \cup {NoResponse, ObjectText(<<<<reply_key, StrTok(Sure)>>>>)}

\* A mutation of validate_response: every reply passes.
validate_response_always(response) == TRUE

\* A mutation of validate_response: a text of the maximum length passes.
validate_response_inclusive(response) ==
    ~response.none /\ text_len(response) > 0 /\ text_len(response) <= MaxResponseLen

\* OpenAIService.validate_response:
\* bool(response and len(response) > 0 and len(response) < 10000)
validate_response(response) ==
    /\ ~response.none
    /\ text_len(response) > 0
    /\ text_len(response) < MaxResponseLen

----------------------------------------------------------------------------
(* OpenAIService.chat_completion and its retry decorator *)

\* What one invocation of the provider can raise: openai's RateLimitError,
\* AuthenticationError and InternalServerError, the TimeoutError of
\* asyncio.wait_for, and any exception that is not openai's.
ProviderRaises == {"RateLimitError", "AuthenticationError", "InternalServerError",
                   "TimeoutError", "RuntimeError"}

\* isinstance(e, APIError): openai derives its status errors from APIError.
IsAPIError(e) ==
    e \in {"APIError", "RateLimitError", "AuthenticationError", "InternalServerError"}

IsRateLimitError(e) == e = "RateLimitError"

Returned(r, p) == [exc |-> "", response |-> r, processing_time_ms |-> p]
Failed(e) == [exc |-> e, response |-> NoResponse, processing_time_ms |-> 0]
NoCompletion == Failed("none")

\* raise APIError(message): the APIError, or the TypeError of a constructor
\* that takes more than the message.
raise_APIError(ctor) == IF ctor THEN Failed("APIError") ELSE Failed("TypeError")

\* One execution of the body of chat_completion, given what the provider did.
chat_completion_body(outcome, ctor) ==
    IF outcome.exc = "" THEN outcome
    ELSE IF outcome.exc = "TimeoutError" THEN raise_APIError(ctor)
    ELSE IF IsRateLimitError(outcome.exc) THEN outcome
    ELSE IF IsAPIError(outcome.exc) THEN outcome
    ELSE raise_APIError(ctor)

MaxAttempts == 3
WaitMultiplier == 1
WaitMin == 1
WaitMax == 10

Min(a, b) == IF a < b THEN a ELSE b
Max(a, b) == IF a > b THEN a ELSE b

\* A mutation of stop_after_attempt: one attempt too many.
stop_after_attempt_late(attempt_number) == attempt_number >= MaxAttempts + 1

\* stop=stop_after_attempt(3)
stop_after_attempt(attempt_number) == attempt_number >= MaxAttempts

\* wait=wait_exponential(multiplier=1, min=1, max=10)
wait_exponential(attempt_number) ==
    Max(Max(0, WaitMin), Min(WaitMultiplier * 2 ^ (attempt_number - 1), WaitMax))

\* A mutation of retry_if_exception_type: a rate-limit error is not retried.
retry_if_not_rate_limit(e) == IsAPIError(e) /\ ~IsRateLimitError(e)

\* retry=retry_if_exception_type((RateLimitError, APIError))
retry_if_exception_type(e) == IsRateLimitError(e) \/ IsAPIError(e)

----------------------------------------------------------------------------
(* SMSDecisionService.make_decision *)

Decided(d, r, p) == [exc |-> "", decision |-> d, reply_text |-> r, processing_time_ms |-> p]
DecisionRaised(e) == [exc |-> e, decision |-> <<>>, reply_text |-> PyNone,
                      processing_time_ms |-> 0]
NoDecision == DecisionRaised("none")

\* A mutation of parse_except: the clause catches KeyError alone.
parse_except_KeyError(e) == e = "KeyError"

\* except (json.JSONDecodeError, KeyError)
parse_except(e) == e \in {"JSONDecodeError", "KeyError"}

\* A mutation of normalize_decision: the decision is kept as it is.
normalize_decision_kept(d) == d

\* if decision not in ["yes", "no"]: decision = "no"
normalize_decision(d) == IF d \notin {yes, no} THEN no ELSE d

\* A mutation of decision_default: the default of the decision field is "yes".
decision_default_yes == PyStr(yes)

\* response_json.get("decision", "no")
decision_default == PyStr(no)

\* response_json.get("reply", "")
reply_default == PyStr(EmptyText)

\* A mutation of fallback_decision: the fallback decision is not of the enum.
fallback_decision_error(result) ==
    Decided(<<"e", "r", "r", "o", "r">>, PyStr(Unable), result.processing_time_ms)

\* The return of the except clause.
fallback_decision(result) == Decided(no, PyStr(Unable), result.processing_time_ms)

\* The statements of the try block, where each may raise.
parse_decision(result) ==
    LET loaded == json_loads(result.response)
        response_json == loaded.val
        field == dict_get(response_json, decision_key, decision_default)
        reply == dict_get(response_json, reply_key, reply_default)
    IN IF loaded.exc # "" THEN DecisionRaised(loaded.exc)
       ELSE IF response_json.t # "dict" THEN DecisionRaised("AttributeError")
       ELSE IF field.t # "str" THEN DecisionRaised("AttributeError")
       ELSE Decided(normalize_decision(lower(field.s)), reply,
                    result.processing_time_ms)

\* make_decision, given how its call of chat_completion ended.
make_decision(result) ==
    IF result.exc # "" THEN DecisionRaised(result.exc)
    ELSE LET tried == parse_decision(result)
         IN IF tried.exc # "" /\ parse_except(tried.exc)
            THEN fallback_decision(result)
            ELSE tried

----------------------------------------------------------------------------
(* The handler make_sms_decision and table sms_logs *)

Texts == {SomeText}

Http(status, detail, log) == [status |-> status, detail |-> detail, log |-> log]
NoHttp == Http(0, "", 0)

\* SMSDecisionEnum(value)
SMSDecisionEnum(value) == IF value \in {yes, no} THEN "" ELSE "ValueError"

\* The handler's except clauses.
http_of_exception(e) ==
    IF IsAPIError(e) THEN Http(503, "AI service temporarily unavailable", 0)
    ELSE Http(500, "Error processing SMS decision", 0)

\* SMSLogRepository.create: the row gets the next id; reply_text is a
\* column that takes no NULL.
sms_log_create(logs, user_id, text, d, reply) ==
    IF reply.t = "NoneType" THEN [exc |-> "IntegrityError", logs |-> logs]
    ELSE [exc |-> "",
          logs |-> Append(logs, [id |-> Len(logs) + 1, user_id |-> user_id,
                                 incoming_text |-> text, decision |-> d,
                                 reply_text |-> reply.s])]

\* user_id = Field(foreign_key="users.id") at an insert: the database
\* rejects a row that references no user when it enforces foreign keys;
\* SQLite, the database of config.py, does not unless the connection asks
\* for it, and database.py does not ask.
foreign_key_fails(rows, user_id) == fk_enforced /\ user_id \notin rows

\* A mutation of user_repo_get: every id is found.
user_repo_get_any(rows, user_id) == TRUE

\* UserRepository.get, as the handlers use it: whether a row has the id.
user_repo_get(rows, user_id) == user_id \in rows

----------------------------------------------------------------------------
(* ConversationService.process_conversation, the handler
   process_conversation and table conversation_logs *)

\* A mutation of process_conversation: the reply is not validated.
process_conversation_passthrough(result) == result

\* ConversationService.process_conversation, given how its call of
\* chat_completion ended.
process_conversation(result) ==
    IF result.exc # "" THEN result
    ELSE IF ~validate_response(result.response) THEN Failed("ValueError")
    ELSE result

\* A mutation of conversation_http_of_exception: the error is put in the detail.
conversation_http_of_exception_detail(e) ==
    IF IsAPIError(e) THEN Http(503, e, 0)
    ELSE Http(500, "Error processing conversation", 0)

\* The except clauses of the handler process_conversation.
conversation_http_of_exception(e) ==
    IF IsAPIError(e) THEN Http(503, "AI service temporarily unavailable", 0)
    ELSE Http(500, "Error processing conversation", 0)

\* A mutation of conversation_log_create: the row is inserted twice.
conversation_log_create_twice(logs, user_id, text, result) ==
    LET row(i) == [id |-> i, user_id |-> user_id, input_text |-> text,
                   gpt_response |-> result.response,
                   processing_time_ms |-> result.processing_time_ms]
    IN [exc |-> "",
        logs |-> Append(Append(logs, row(Len(logs) + 1)), row(Len(logs) + 2))]

\* A mutation of conversation_log_create: the row is not committed.
conversation_log_create_lost(logs, user_id, text, result) ==
    [exc |-> "", logs |-> logs]

\* ConversationLogRepository.create: the row gets the next id;
\* gpt_response is a column that takes no NULL.
conversation_log_create(logs, user_id, text, result) ==
    IF result.response.none THEN [exc |-> "IntegrityError", logs |-> logs]
    ELSE [exc |-> "",
          logs |-> Append(logs, [id |-> Len(logs) + 1, user_id |-> user_id,
                                 input_text |-> text,
                                 gpt_response |-> result.response,
                                 processing_time_ms |-> result.processing_time_ms])]

MaxThreads == 2
Threads == 1..MaxThreads

\* ConversationService(openai_service) and SMSDecisionService(openai_service).
Orchestrator(kind, instance) == [orchestrator |-> kind, openai_service |-> instance]
NoOrchestrator == Orchestrator("", 0)

DefaultMaxRetries == 3
DefaultRetryDelay == 1

\* Settings.max_retries and Settings.retry_delay.
Settings(max_retries, retry_delay) ==
    [max_retries |-> max_retries, retry_delay |-> retry_delay]

\* The handler that was entered, with the id and the name it was given.
Op(name, id, arg) == [name |-> name, id |-> id, arg |-> arg]
NoOp == Op("", 0, 0)

MaxClients == 2
Clients == 1..MaxClients

\* The defaults of config.py, a database that does not enforce foreign keys
\* (SQLite as database.py opens it), and nothing else going on.
Defaults ==
    /\ op = NoOp
    /\ settings = Settings(DefaultMaxRetries, DefaultRetryDelay)
    /\ fk_enforced = FALSE
    /\ pref_pc = [c \in Clients |-> "start"]
    /\ pref_req = [c \in Clients |-> [user_id |-> 0, language |-> ""]]
    /\ pref_http = [c \in Clients |-> [status |-> 0, detail |-> "", log |-> 0]]
    /\ log_rows = <<>>
    /\ log_query = [user_id |-> 0, limit |-> 0]
    /\ log_result = <<>>

\* The process after startup, before any request asked for a service.
NoServices ==
    /\ _openai_service = 0
    /\ instances = {}
    /\ closed = <<>>
    /\ dep_pc = [t \in Threads |-> "start"]
    /\ dep_new = [t \in Threads |-> 0]
    /\ service_of = [t \in Threads |-> NoOrchestrator]
    /\ lifespan_pc = "running"

\* The users table as init_db finds it: every user has a username and an
\* email of its own.
Profile(n) == [username |-> n, email |-> n]

Init ==
    /\ Defaults
    /\ NoServices
    /\ call_logs = <<>>
    /\ preferences = {}
    /\ endpoint = ""
    /\ valid = FALSE
    /\ conversation = NoCompletion
    /\ conversation_logs = <<>>
    /\ users \in SUBSET UserIds
    /\ profiles = [u \in users |-> Profile(u)]
    /\ sms_logs = <<>>
    /\ pc = "idle"
    /\ request = [user_id |-> 0, text |-> EmptyText]
    /\ attempts = 0
    /\ waited = 0
    /\ outcomes = <<>>
    /\ completion = NoCompletion
    /\ decision = NoDecision
    /\ http = NoHttp
    /\ nrequests = 0
    /\ apierror_ctor \in BOOLEAN

\* make_sms_decision up to the call of service.make_decision.
SMSRequest(u, t) ==
    /\ op' = Op("make_sms_decision", u, 0)
    /\ pc = "idle"
    /\ nrequests < MaxRequests
    /\ nrequests' = nrequests + 1
    /\ request' = [user_id |-> u, text |-> t]
    /\ attempts' = 0
    /\ waited' = 0
    /\ outcomes' = <<>>
    /\ completion' = NoCompletion
    /\ decision' = NoDecision
    /\ endpoint' = "sms"
    /\ IF ~user_repo_get(users, u)
       THEN /\ http' = Http(404, "User not found", 0)
            /\ pc' = "idle"
       ELSE /\ http' = NoHttp
            /\ pc' = "calling"
    /\ UNCHANGED <<users, sms_logs, apierror_ctor, service_vars, other_vars, store_vars, conversation_vars>>

\* The handler process_conversation up to the call of
\* service.process_conversation.
ConversationRequest(u, t) ==
    /\ op' = Op("process_conversation", u, 0)
    /\ pc = "idle"
    /\ nrequests < MaxRequests
    /\ nrequests' = nrequests + 1
    /\ request' = [user_id |-> u, text |-> t]
    /\ attempts' = 0
    /\ waited' = 0
    /\ outcomes' = <<>>
    /\ completion' = NoCompletion
    /\ conversation' = NoCompletion
    /\ endpoint' = "conversation"
    /\ IF ~user_repo_get(users, u)
       THEN /\ http' = Http(404, "User not found", 0)
            /\ pc' = "idle"
       ELSE /\ http' = NoHttp
            /\ pc' = "calling"
    /\ UNCHANGED <<users, sms_logs, apierror_ctor, service_vars, other_vars, store_vars, decision, valid, conversation_logs>>

\* One attempt of chat_completion, and what the retry decorator does next.
ProviderAttempt(outcome) ==
    /\ pc = "calling"
    /\ attempts' = attempts + 1
    /\ outcomes' = Append(outcomes, outcome)
    /\ LET ended == chat_completion_body(outcome, apierror_ctor)
       IN IF ended.exc # "" /\ retry_if_exception_type(ended.exc)
             /\ ~stop_after_attempt(attempts')
          THEN /\ waited' = waited + wait_exponential(attempts')
               /\ pc' = "calling"
               /\ UNCHANGED completion
          ELSE /\ completion' = ended
               /\ pc' = "completed"
               /\ UNCHANGED waited
    /\ UNCHANGED <<users, sms_logs, request, decision, http, nrequests, apierror_ctor, service_vars, other_vars, op, store_vars,
                   endpoint, conversation_vars>>

ProviderReturns ==
    \E r \in (IF endpoint = "sms" THEN Responses ELSE Replies), p \in ProcTimes :
        ProviderAttempt(Returned(r, p))

ProviderFails == \E e \in ProviderRaises : ProviderAttempt(Failed(e))

\* make_decision after its call of chat_completion.
MakeDecision ==
    /\ pc = "completed"
    /\ endpoint = "sms"
    /\ decision' = make_decision(completion)
    /\ pc' = "decided"
    /\ UNCHANGED <<users, sms_logs, request, attempts, waited, outcomes,
                   completion, http, nrequests, apierror_ctor, service_vars, other_vars, op, store_vars, endpoint,
                   conversation_vars>>

\* A mutation of Converse: a reply that fails validate_response sends the
\* orchestrator back to the completion client.
Converse_retrying ==
    /\ pc = "completed"
    /\ endpoint = "conversation"
    /\ valid' = IF completion.exc = "" THEN validate_response(completion.response)
                ELSE valid
    /\ IF completion.exc = "" /\ ~validate_response(completion.response)
       THEN /\ pc' = "calling"
            /\ UNCHANGED conversation
       ELSE /\ conversation' = process_conversation(completion)
            /\ pc' = "conversed"
    /\ UNCHANGED <<users, sms_logs, request, attempts, waited, outcomes,
                   completion, decision, http, nrequests, apierror_ctor, service_vars, other_vars, op, store_vars, endpoint,
                   conversation_logs>>

\* service.process_conversation after its call of chat_completion.
Converse ==
    /\ pc = "completed"
    /\ endpoint = "conversation"
    /\ valid' = IF completion.exc = "" THEN validate_response(completion.response)
                ELSE valid
    /\ conversation' = process_conversation(completion)
    /\ pc' = "conversed"
    /\ UNCHANGED <<users, sms_logs, request, attempts, waited, outcomes,
                   completion, decision, http, nrequests, apierror_ctor, service_vars, other_vars, op, store_vars, endpoint,
                   conversation_logs>>

\* The handler process_conversation after the call of
\* service.process_conversation.
ConversationRespond ==
    /\ pc = "conversed"
    /\ pc' = "idle"
    /\ IF conversation.exc # ""
       THEN /\ http' = conversation_http_of_exception(conversation.exc)
            /\ UNCHANGED conversation_logs
       ELSE LET made == IF foreign_key_fails(users, request.user_id)
                        THEN [exc |-> "IntegrityError", logs |-> conversation_logs]
                        ELSE conversation_log_create(conversation_logs, request.user_id,
                                                     request.text, conversation)
            IN IF made.exc # ""
               THEN /\ http' = conversation_http_of_exception(made.exc)
                    /\ UNCHANGED conversation_logs
               ELSE /\ conversation_logs' = made.logs
                    /\ http' = Http(200, "", Len(made.logs))
    /\ UNCHANGED <<users, sms_logs, request, attempts, waited, outcomes,
                   completion, decision, nrequests, apierror_ctor, service_vars, other_vars, op, store_vars, endpoint,
                   valid, conversation>>

\* make_sms_decision after the call of service.make_decision.
SMSRespond ==
    /\ pc = "decided"
    /\ pc' = "idle"
    /\ IF decision.exc # ""
       THEN /\ http' = http_of_exception(decision.exc)
            /\ UNCHANGED sms_logs
       ELSE IF SMSDecisionEnum(decision.decision) # ""
       THEN /\ http' = http_of_exception(SMSDecisionEnum(decision.decision))
            /\ UNCHANGED sms_logs
       ELSE LET made == IF foreign_key_fails(users, request.user_id)
                        THEN [exc |-> "IntegrityError", logs |-> sms_logs]
                        ELSE sms_log_create(sms_logs, request.user_id, request.text,
                                            decision.decision, decision.reply_text)
            IN IF made.exc # ""
               THEN /\ http' = http_of_exception(made.exc)
                    /\ UNCHANGED sms_logs
               ELSE /\ sms_logs' = made.logs
                    /\ http' = Http(200, "", Len(made.logs))
    /\ UNCHANGED <<users, request, attempts, waited, outcomes, completion,
                   decision, nrequests, apierror_ctor, service_vars, other_vars, op, store_vars, endpoint, conversation_vars>>

Next ==
    \/ \E u \in UserIds, t \in Texts : SMSRequest(u, t)
    \/ ProviderReturns
    \/ ProviderFails
    \/ MakeDecision
    \/ SMSRespond
    \/ \E u \in UserIds, t \in Texts : ConversationRequest(u, t)
    \/ Converse
    \/ ConversationRespond

Spec == Init /\ [][Next]_vars

----------------------------------------------------------------------------
(* The requests under the retry settings the environment can give *)

MaxConfiguredRetries == 4

\* MAX_RETRIES of the environment; OpenAIService.__init__ copies the
\* setting to self.max_retries, and the decorator of chat_completion
\* (stop_after_attempt, wait_exponential above) does not read it.
ConfiguredSettings ==
    {Settings(m, DefaultRetryDelay) : m \in 1..MaxConfiguredRetries}

InitConfigured ==
    /\ NoServices
    /\ op = NoOp
    /\ settings \in ConfiguredSettings
    /\ fk_enforced = FALSE
    /\ pref_pc = [c \in Clients |-> "start"]
    /\ pref_req = [c \in Clients |-> [user_id |-> 0, language |-> ""]]
    /\ pref_http = [c \in Clients |-> [status |-> 0, detail |-> "", log |-> 0]]
    /\ log_rows = <<>>
    /\ log_query = [user_id |-> 0, limit |-> 0]
    /\ log_result = <<>>
    /\ call_logs = <<>>
    /\ preferences = {}
    /\ endpoint = ""
    /\ valid = FALSE
    /\ conversation = NoCompletion
    /\ conversation_logs = <<>>
    /\ users = UserIds
    /\ profiles = [u \in users |-> Profile(u)]
    /\ sms_logs = <<>>
    /\ pc = "idle"
    /\ request = [user_id |-> 0, text |-> EmptyText]
    /\ attempts = 0
    /\ waited = 0
    /\ outcomes = <<>>
    /\ completion = NoCompletion
    /\ decision = NoDecision
    /\ http = NoHttp
    /\ nrequests = 0
    /\ apierror_ctor \in BOOLEAN

SpecConfigured == InitConfigured /\ [][Next]_vars

----------------------------------------------------------------------------
(* validate_response on its own: the texts around its two limits *)

ValidateSpan == 25

ValidateLens ==
    (0..ValidateSpan) \cup ((MaxResponseLen - ValidateSpan)..(MaxResponseLen + ValidateSpan))

ValidateInputs == {Reply(n) : n \in ValidateLens} \cup {NoResponse}

InitValidate ==
    /\ Defaults
    /\ NoServices
    /\ call_logs = <<>>
    /\ preferences = {}
    /\ profiles = <<>>
    /\ endpoint = "conversation"
    /\ valid = FALSE
    /\ conversation = NoCompletion
    /\ conversation_logs = <<>>
    /\ users = {}
    /\ sms_logs = <<>>
    /\ pc = "validate"
    /\ request = [user_id |-> 0, text |-> EmptyText]
    /\ attempts = 0
    /\ waited = 0
    /\ outcomes = <<>>
    /\ completion \in {Returned(r, 1) : r \in ValidateInputs}
    /\ decision = NoDecision
    /\ http = NoHttp
    /\ nrequests = 0
    /\ apierror_ctor = TRUE

\* One call of validate_response.
Validate ==
    /\ pc = "validate"
    /\ valid' = validate_response(completion.response)
    /\ pc' = "validated"
    /\ UNCHANGED <<users, sms_logs, request, attempts, waited, outcomes,
                   completion, decision, http, nrequests, apierror_ctor, service_vars, other_vars, op, store_vars, endpoint,
                   conversation, conversation_logs>>

NextValidate == Validate

SpecValidate == InitValidate /\ [][NextValidate]_vars

----------------------------------------------------------------------------
(* The tables and the operations on users, preferences and history *)

Names == 1..(MaxUserId + 1)
Languages == {"en", "ta"}

\* The tables as one value.
Tables ==
    [users |-> users, profiles |-> profiles, preferences |-> preferences,
     conversation_logs |-> conversation_logs, sms_logs |-> sms_logs,
     call_logs |-> call_logs]

\* The id a new row gets from SQLite, the database of config.py: the
\* primary key is the rowid, one more than the largest id in the table.
next_id(ids) ==
    IF ids = {} THEN 1 ELSE (CHOOSE i \in ids : \A j \in ids : j <= i) + 1

\* A mutation of get_by_username: no row is found.
get_by_username_none(rows, username) == FALSE

\* UserRepository.get_by_username and get_by_email: whether a row matches.
get_by_username(rows, username) ==
    \E u \in DOMAIN rows : rows[u].username = username

get_by_email(rows, email) ==
    \E u \in DOMAIN rows : rows[u].email = email

\* UserPreferenceRepository.get_by_user_id and get: the matching rows.
pref_get_by_user_id(rows, user_id) == {p \in rows : p.user_id = user_id}
pref_get(rows, preference_id) == {p \in rows : p.id = preference_id}

\* The rows of a log table that reference the user.
log_get_by_user_id(logs, user_id) ==
    SelectSeq(logs, LAMBDA row : row.user_id = user_id)

\* The rows the relationships of User load for a user.
has_children(db, user_id) ==
    \/ pref_get_by_user_id(db.preferences, user_id) # {}
    \/ log_get_by_user_id(db.conversation_logs, user_id) # <<>>
    \/ log_get_by_user_id(db.sms_logs, user_id) # <<>>
    \/ log_get_by_user_id(db.call_logs, user_id) # <<>>

without_user(db, user_id) ==
    [db EXCEPT !.users = @ \ {user_id},
               !.profiles = [u \in (DOMAIN @) \ {user_id} |-> @[u]]]

\* A mutation of user_delete: an id without a row is an error.
user_delete_raising(db, user_id) ==
    IF user_id \notin db.users
    THEN [found |-> TRUE, exc |-> "UnmappedInstanceError", db |-> db]
    ELSE IF has_children(db, user_id)
    THEN [found |-> TRUE, exc |-> "IntegrityError", db |-> db]
    ELSE [found |-> TRUE, exc |-> "", db |-> without_user(db, user_id)]

\* A mutation of user_delete: success is reported and the row is kept.
user_delete_kept(db, user_id) ==
    [found |-> user_id \in db.users, exc |-> "", db |-> db]

\* A mutation of user_delete: the rows that reference the user go with it.
user_delete_cascade(db, user_id) ==
    IF user_id \notin db.users THEN [found |-> FALSE, exc |-> "", db |-> db]
    ELSE LET others(logs) == SelectSeq(logs, LAMBDA row : row.user_id # user_id)
         IN [found |-> TRUE, exc |-> "",
             db |-> [without_user(db, user_id) EXCEPT
                        !.preferences = {p \in @ : p.user_id # user_id},
                        !.conversation_logs = others(@),
                        !.sms_logs = others(@),
                        !.call_logs = others(@)]]

\* UserRepository.delete. The relationships of User have the default
\* cascade: the flush sets user_id of the rows that reference the user to
\* NULL, which the column does not take, and the commit fails.
user_delete(db, user_id) ==
    IF user_id \notin db.users THEN [found |-> FALSE, exc |-> "", db |-> db]
    ELSE IF has_children(db, user_id)
    THEN [found |-> TRUE, exc |-> "IntegrityError", db |-> db]
    ELSE [found |-> TRUE, exc |-> "", db |-> without_user(db, user_id)]

\* The handler create_user.
UserCreate(username, email) ==
    /\ op' = Op("create_user", 0, username)
    /\ pc = "idle"
    /\ \/ get_by_username(profiles, username)
       \/ get_by_email(profiles, email)
       \/ next_id(users) \in UserIds
    /\ IF get_by_username(profiles, username)
       THEN /\ http' = Http(400, "Username already exists", 0)
            /\ UNCHANGED <<users, profiles>>
       ELSE IF get_by_email(profiles, email)
       THEN /\ http' = Http(400, "Email already exists", 0)
            /\ UNCHANGED <<users, profiles>>
       ELSE LET id == next_id(users)
            IN /\ users' = users \cup {id}
               /\ profiles' = [u \in users \cup {id} |->
                                  IF u = id
                                  THEN [username |-> username, email |-> email]
                                  ELSE profiles[u]]
               /\ http' = Http(201, "", id)
    /\ UNCHANGED <<sms_logs, pc, request, attempts, waited, outcomes, completion,
                   decision, nrequests, apierror_ctor, service_vars, other_vars, endpoint, conversation_vars,
                   call_logs, preferences>>

\* The handler update_user, for an update of the username.
UserUpdate(user_id, username) ==
    /\ op' = Op("update_user", user_id, username)
    /\ pc = "idle"
    /\ IF user_id \notin users
       THEN /\ http' = Http(404, "User not found", 0)
            /\ UNCHANGED profiles
       ELSE IF \E u \in users \ {user_id} : profiles[u].username = username
       THEN /\ http' = Http(500, "Error updating user", 0)
            /\ UNCHANGED profiles
       ELSE /\ profiles' = [profiles EXCEPT ![user_id].username = username]
            /\ http' = Http(200, "", user_id)
    /\ UNCHANGED <<users, sms_logs, pc, request, attempts, waited, outcomes,
                   completion, decision, nrequests, apierror_ctor, service_vars, other_vars, endpoint,
                   conversation_vars, call_logs, preferences>>

\* The handler delete_user.
UserDelete(user_id) ==
    /\ op' = Op("delete_user", user_id, 0)
    /\ pc = "idle"
    /\ LET done == user_delete(Tables, user_id)
       IN /\ http' = IF ~done.found THEN Http(404, "User not found", 0)
                     ELSE IF done.exc # "" THEN Http(500, "Error deleting user", 0)
                     ELSE Http(204, "", 0)
          /\ users' = done.db.users
          /\ profiles' = done.db.profiles
          /\ preferences' = done.db.preferences
          /\ conversation_logs' = done.db.conversation_logs
          /\ sms_logs' = done.db.sms_logs
          /\ call_logs' = done.db.call_logs
    /\ UNCHANGED <<pc, request, attempts, waited, outcomes, completion, decision,
                   nrequests, apierror_ctor, service_vars, other_vars, endpoint, valid, conversation>>

\* The handler create_preferences.
PreferenceCreate(user_id, language) ==
    /\ op' = Op("create_preferences", user_id, 0)
    /\ pc = "idle"
    /\ LET ids == {p.id : p \in preferences}
       IN /\ \/ user_id \notin users
             \/ pref_get_by_user_id(preferences, user_id) # {}
             \/ next_id(ids) \in UserIds
          /\ IF ~user_repo_get(users, user_id)
             THEN /\ http' = Http(404, "User not found", 0)
                  /\ UNCHANGED preferences
             ELSE IF pref_get_by_user_id(preferences, user_id) # {}
             THEN /\ http' = Http(400, "Preferences already exist for this user", 0)
                  /\ UNCHANGED preferences
             ELSE /\ preferences' = preferences \cup
                         {[id |-> next_id(ids), user_id |-> user_id,
                           language |-> language]}
                  /\ http' = Http(201, "", next_id(ids))
    /\ UNCHANGED <<users, sms_logs, pc, request, attempts, waited, outcomes,
                   completion, decision, nrequests, apierror_ctor, service_vars, other_vars, endpoint,
                   conversation_vars, call_logs, profiles>>

\* The handler update_preferences, for an update of the language.
PreferenceUpdate(preference_id, language) ==
    /\ op' = Op("update_preferences", preference_id, 0)
    /\ pc = "idle"
    /\ IF pref_get(preferences, preference_id) = {}
       THEN /\ http' = Http(404, "Preferences not found", 0)
            /\ UNCHANGED preferences
       ELSE /\ preferences' =
                   {IF p.id = preference_id THEN [p EXCEPT !.language = language]
                    ELSE p : p \in preferences}
            /\ http' = Http(200, "", preference_id)
    /\ UNCHANGED <<users, sms_logs, pc, request, attempts, waited, outcomes,
                   completion, decision, nrequests, apierror_ctor, service_vars, other_vars, endpoint,
                   conversation_vars, call_logs, profiles>>

\* The handler delete_preferences.
PreferenceDelete(preference_id) ==
    /\ op' = Op("delete_preferences", preference_id, 0)
    /\ pc = "idle"
    /\ IF pref_get(preferences, preference_id) = {}
       THEN /\ http' = Http(404, "Preferences not found", 0)
            /\ UNCHANGED preferences
       ELSE /\ preferences' = preferences \ pref_get(preferences, preference_id)
            /\ http' = Http(204, "", 0)
    /\ UNCHANGED <<users, sms_logs, pc, request, attempts, waited, outcomes,
                   completion, decision, nrequests, apierror_ctor, service_vars, other_vars, endpoint,
                   conversation_vars, call_logs, profiles>>

\* The handler get_user_history: it reads the three log tables.
HistoryRead(user_id) ==
    /\ op' = Op("get_user_history", user_id, 0)
    /\ pc = "idle"
    /\ http' = IF ~user_repo_get(users, user_id)
               THEN Http(404, "User not found", 0)
               ELSE Http(200, "",
                         Len(log_get_by_user_id(conversation_logs, user_id))
                         + Len(log_get_by_user_id(call_logs, user_id))
                         + Len(log_get_by_user_id(sms_logs, user_id)))
    /\ UNCHANGED <<users, sms_logs, pc, request, attempts, waited, outcomes,
                   completion, decision, nrequests, apierror_ctor, service_vars, other_vars, endpoint,
                   conversation_vars, store_vars>>

\* The handler get_user.
UserGet(user_id) ==
    /\ op' = Op("get_user", user_id, 0)
    /\ pc = "idle"
    /\ http' = IF ~user_repo_get(users, user_id)
               THEN Http(404, "User not found", 0)
               ELSE Http(200, "", user_id)
    /\ UNCHANGED <<users, sms_logs, pc, request, attempts, waited, outcomes,
                   completion, decision, nrequests, apierror_ctor, service_vars,
                   other_vars, endpoint, conversation_vars, store_vars>>

\* The handler get_preferences: the preferences of a user.
PreferenceGet(user_id) ==
    /\ op' = Op("get_preferences", user_id, 0)
    /\ pc = "idle"
    /\ LET found == pref_get_by_user_id(preferences, user_id)
       IN http' = IF found = {}
                  THEN Http(404, "Preferences not found for this user", 0)
                  ELSE Http(200, "", (CHOOSE p \in found : TRUE).id)
    /\ UNCHANGED <<users, sms_logs, pc, request, attempts, waited, outcomes,
                   completion, decision, nrequests, apierror_ctor, service_vars,
                   other_vars, endpoint, conversation_vars, store_vars>>

\* What the provider answers in the runs of the operations on the tables.
StoreResponse ==
    IF endpoint = "sms"
    THEN ObjectText(<<<<decision_key, StrTok(yes)>>, <<reply_key, StrTok(Sure)>>>>)
    ELSE ReplyOf[1]

StoreProviderReturns == ProviderAttempt(Returned(StoreResponse, 1))

StoreProviderFails == ProviderAttempt(Failed("RateLimitError"))

\* A call log row; no handler writes one, init_db finds it in the table.
CallLogRow(id, user_id) == [id |-> id, user_id |-> user_id, success |-> TRUE]

InitStore ==
    /\ Defaults
    /\ NoServices
    /\ users \in SUBSET UserIds
    /\ profiles = [u \in users |-> Profile(u)]
    /\ preferences = {}
    /\ call_logs \in {<<>>} \cup {<<CallLogRow(1, u)>> : u \in users}
    /\ conversation_logs = <<>>
    /\ sms_logs = <<>>
    /\ endpoint = ""
    /\ valid = FALSE
    /\ conversation = NoCompletion
    /\ pc = "idle"
    /\ request = [user_id |-> 0, text |-> EmptyText]
    /\ attempts = 0
    /\ waited = 0
    /\ outcomes = <<>>
    /\ completion = NoCompletion
    /\ decision = NoDecision
    /\ http = NoHttp
    /\ nrequests = 0
    /\ apierror_ctor = TRUE

\* The operations on users, preferences and history, one after another.
NextCrud ==
    \/ \E n \in Names, m \in Names : UserCreate(n, m)
    \/ \E u \in UserIds, n \in Names : UserUpdate(u, n)
    \/ \E u \in UserIds : UserDelete(u)
    \/ \E u \in UserIds, l \in Languages : PreferenceCreate(u, l)
    \/ \E p \in UserIds, l \in Languages : PreferenceUpdate(p, l)
    \/ \E p \in UserIds : PreferenceDelete(p)
    \/ \E u \in UserIds : HistoryRead(u)
    \/ \E u \in UserIds : UserGet(u)
    \/ \E u \in UserIds : PreferenceGet(u)

SpecCrud == InitStore /\ [][NextCrud]_vars

\* The operations on the tables that run between the requests: each user
\* with the username and email of its own.
StoreCrud ==
    \/ \E n \in UserIds : UserCreate(n, n)
    \/ \E u \in UserIds : UserUpdate(u, u)
    \/ \E u \in UserIds : UserDelete(u)
    \/ \E u \in UserIds, l \in Languages : PreferenceCreate(u, l)
    \/ \E p \in UserIds, l \in Languages : PreferenceUpdate(p, l)
    \/ \E p \in UserIds : PreferenceDelete(p)
    \/ \E u \in UserIds : HistoryRead(u)

NextStore ==
    \/ StoreCrud
    \/ \E u \in UserIds, t \in Texts : SMSRequest(u, t)
    \/ \E u \in UserIds, t \in Texts : ConversationRequest(u, t)
    \/ StoreProviderReturns
    \/ StoreProviderFails
    \/ MakeDecision
    \/ SMSRespond
    \/ Converse
    \/ ConversationRespond

SpecStore == InitStore /\ [][NextStore]_vars

----------------------------------------------------------------------------
(* The shared OpenAIService: get_openai_service in the threadpool threads
   that run the dependencies of the requests, and the lifespan of the app *)

\* What the runs of get_openai_service leave alone.
app_vars ==
    <<users, sms_logs, pc, request, attempts, waited, outcomes, completion,
      decision, http, nrequests, apierror_ctor, endpoint, conversation_vars,
      store_vars, other_vars, op>>

\* OpenAIService(): one more instance, not closed.
construct(made) == Cardinality(made) + 1

\* A request arrives and a thread enters get_openai_service:
\* `if _openai_service is None`.
CheckService(t) ==
    /\ lifespan_pc = "running"
    /\ dep_pc[t] = "start"
    /\ dep_pc' = [dep_pc EXCEPT ![t] = IF _openai_service = 0 THEN "construct"
                                       ELSE "return"]
    /\ UNCHANGED <<app_vars, _openai_service, instances, closed, dep_new,
                   service_of, lifespan_pc>>

\* The right-hand side of `_openai_service = OpenAIService()`.
ConstructService(t) ==
    /\ dep_pc[t] = "construct"
    /\ LET new == construct(instances)
       IN /\ instances' = instances \cup {new}
          /\ closed' = [i \in instances \cup {new} |->
                           IF i = new THEN 0 ELSE closed[i]]
          /\ dep_new' = [dep_new EXCEPT ![t] = new]
    /\ dep_pc' = [dep_pc EXCEPT ![t] = "assign"]
    /\ UNCHANGED <<app_vars, _openai_service, service_of, lifespan_pc>>

\* The store to the global of `_openai_service = OpenAIService()`.
AssignService(t) ==
    /\ dep_pc[t] = "assign"
    /\ _openai_service' = dep_new[t]
    /\ dep_new' = [dep_new EXCEPT ![t] = 0]
    /\ dep_pc' = [dep_pc EXCEPT ![t] = "return"]
    /\ UNCHANGED <<app_vars, instances, closed, service_of, lifespan_pc>>

\* `return _openai_service`, and the orchestrator that
\* get_conversation_service or get_sms_decision_service makes of it.
GetService(t, kind) ==
    /\ dep_pc[t] = "return"
    /\ service_of' = [service_of EXCEPT ![t] = Orchestrator(kind, _openai_service)]
    /\ dep_pc' = [dep_pc EXCEPT ![t] = "done"]
    /\ UNCHANGED <<app_vars, _openai_service, instances, closed, dep_new,
                   lifespan_pc>>

\* The lifespan after its yield, once the requests are served:
\* openai_service = get_openai_service(), which constructs an instance
\* when there is none.
ShutdownGet ==
    /\ lifespan_pc = "running"
    /\ \A t \in Threads : dep_pc[t] \in {"start", "done"}
    /\ IF _openai_service = 0
       THEN LET new == construct(instances)
            IN /\ instances' = instances \cup {new}
               /\ closed' = [i \in instances \cup {new} |->
                                IF i = new THEN 0 ELSE closed[i]]
               /\ _openai_service' = new
       ELSE UNCHANGED <<_openai_service, instances, closed>>
    /\ lifespan_pc' = "closing"
    /\ UNCHANGED <<app_vars, dep_pc, dep_new, service_of>>

\* OpenAIService.close on the instance.
service_close(counts, instance) == [counts EXCEPT ![instance] = @ + 1]

\* `await openai_service.close()` and close_db of the lifespan.
ShutdownClose ==
    /\ lifespan_pc = "closing"
    /\ closed' = service_close(closed, _openai_service)
    /\ lifespan_pc' = "stopped"
    /\ UNCHANGED <<app_vars, _openai_service, instances, dep_pc, dep_new,
                   service_of>>

InitServices ==
    /\ Defaults
    /\ NoServices
    /\ users = {}
    /\ profiles = <<>>
    /\ preferences = {}
    /\ call_logs = <<>>
    /\ conversation_logs = <<>>
    /\ sms_logs = <<>>
    /\ endpoint = ""
    /\ valid = FALSE
    /\ conversation = NoCompletion
    /\ pc = "idle"
    /\ request = [user_id |-> 0, text |-> EmptyText]
    /\ attempts = 0
    /\ waited = 0
    /\ outcomes = <<>>
    /\ completion = NoCompletion
    /\ decision = NoDecision
    /\ http = NoHttp
    /\ nrequests = 0
    /\ apierror_ctor = TRUE

NextServices ==
    \/ \E t \in Threads : CheckService(t)
    \/ \E t \in Threads : ConstructService(t)
    \/ \E t \in Threads : AssignService(t)
    \/ \E t \in Threads, kind \in {"conversation", "sms"} : GetService(t, kind)
    \/ ShutdownGet
    \/ ShutdownClose

SpecServices == InitServices /\ [][NextServices]_vars

----------------------------------------------------------------------------
(* get_by_user_id of the three log repositories on its own *)

MaxLogRows == 3
MaxTime == 2
MaxLimit == 2

Owners == {1, 2}
Times == 1..MaxTime
Limits == 0..MaxLimit

\* A row of a log table, as far as get_by_user_id looks at it.
LogRow(id, user_id, created_at) ==
    [id |-> id, user_id |-> user_id, created_at |-> created_at]

\* The tables of up to MaxLogRows rows; the ids follow the insertions.
LogTables ==
    UNION {{[i \in 1..n |-> LogRow(i, f[i][1], f[i][2])] :
               f \in [1..n -> Owners \X Times]} : n \in 0..MaxLogRows}

\* The orders of n rows.
Orders(n) == {p \in [1..n -> 1..n] : \A i, j \in 1..n : i # j => p[i] # p[j]}

\* A mutation of get_by_user_id: the oldest rows come first.
get_by_user_id_asc(rows, user_id, limit) ==
    LET matching == SelectSeq(rows, LAMBDA row : row.user_id = user_id)
        n == Len(matching)
        sorted == {p \in Orders(n) : \A i, j \in 1..n :
                      i < j => matching[p[i]].created_at <= matching[p[j]].created_at}
    IN {SubSeq([i \in 1..n |-> matching[p[i]]], 1, Min(limit, n)) : p \in sorted}

\* get_by_user_id of ConversationLogRepository, CallLogRepository and
\* SMSLogRepository: WHERE user_id = :user_id ORDER BY created_at DESC
\* LIMIT :limit. The database leaves the order of rows of one created_at
\* open, so these are the results it can return.
get_by_user_id(rows, user_id, limit) ==
    LET matching == SelectSeq(rows, LAMBDA row : row.user_id = user_id)
        n == Len(matching)
        sorted == {p \in Orders(n) : \A i, j \in 1..n :
                      i < j => matching[p[i]].created_at >= matching[p[j]].created_at}
    IN {SubSeq([i \in 1..n |-> matching[p[i]]], 1, Min(limit, n)) : p \in sorted}

InitQuery ==
    /\ NoServices
    /\ op = NoOp
    /\ settings = Settings(DefaultMaxRetries, DefaultRetryDelay)
    /\ fk_enforced = FALSE
    /\ pref_pc = [c \in Clients |-> "start"]
    /\ pref_req = [c \in Clients |-> [user_id |-> 0, language |-> ""]]
    /\ pref_http = [c \in Clients |-> [status |-> 0, detail |-> "", log |-> 0]]
    /\ log_rows \in LogTables
    /\ log_query \in [user_id : Owners, limit : Limits]
    /\ log_result = <<>>
    /\ users = {}
    /\ profiles = <<>>
    /\ preferences = {}
    /\ call_logs = <<>>
    /\ conversation_logs = <<>>
    /\ sms_logs = <<>>
    /\ endpoint = ""
    /\ valid = FALSE
    /\ conversation = NoCompletion
    /\ pc = "query"
    /\ request = [user_id |-> 0, text |-> EmptyText]
    /\ attempts = 0
    /\ waited = 0
    /\ outcomes = <<>>
    /\ completion = NoCompletion
    /\ decision = NoDecision
    /\ http = NoHttp
    /\ nrequests = 0
    /\ apierror_ctor = TRUE

\* One call of get_by_user_id.
Query ==
    /\ pc = "query"
    /\ log_result' \in get_by_user_id(log_rows, log_query.user_id, log_query.limit)
    /\ pc' = "queried"
    /\ UNCHANGED <<users, sms_logs, request, attempts, waited, outcomes, completion,
                   decision, http, nrequests, apierror_ctor, endpoint,
                   conversation_vars, store_vars, service_vars, op, config_vars,
                   pref_client_vars, log_rows, log_query>>

NextQuery == Query

SpecQuery == InitQuery /\ [][NextQuery]_vars

----------------------------------------------------------------------------
(* A request and delete_user at the same time: the handlers interleave at
   the awaits of the request, each with a session of its own *)

\* The handler delete_user, run for another client while a conversation or
\* SMS request waits for the completion client or for its orchestrator;
\* its answer goes to that client.
UserDeleteDuring(user_id) ==
    /\ pc \in {"calling", "completed", "conversed", "decided"}
    /\ user_id \in users
    /\ op' = Op("delete_user", user_id, 0)
    /\ LET done == user_delete(Tables, user_id)
       IN /\ users' = done.db.users
          /\ profiles' = done.db.profiles
          /\ preferences' = done.db.preferences
          /\ conversation_logs' = done.db.conversation_logs
          /\ sms_logs' = done.db.sms_logs
          /\ call_logs' = done.db.call_logs
    /\ UNCHANGED <<pc, request, attempts, waited, outcomes, completion, decision,
                   http, nrequests, apierror_ctor, service_vars, other_vars,
                   endpoint, valid, conversation>>

InitOrphans ==
    /\ NoServices
    /\ op = NoOp
    /\ settings = Settings(DefaultMaxRetries, DefaultRetryDelay)
    /\ fk_enforced \in BOOLEAN
    /\ pref_pc = [c \in Clients |-> "start"]
    /\ pref_req = [c \in Clients |-> [user_id |-> 0, language |-> ""]]
    /\ pref_http = [c \in Clients |-> [status |-> 0, detail |-> "", log |-> 0]]
    /\ log_rows = <<>>
    /\ log_query = [user_id |-> 0, limit |-> 0]
    /\ log_result = <<>>
    /\ users \in SUBSET UserIds
    /\ profiles = [u \in users |-> Profile(u)]
    /\ preferences = {}
    /\ call_logs = <<>>
    /\ conversation_logs = <<>>
    /\ sms_logs = <<>>
    /\ endpoint = ""
    /\ valid = FALSE
    /\ conversation = NoCompletion
    /\ pc = "idle"
    /\ request = [user_id |-> 0, text |-> EmptyText]
    /\ attempts = 0
    /\ waited = 0
    /\ outcomes = <<>>
    /\ completion = NoCompletion
    /\ decision = NoDecision
    /\ http = NoHttp
    /\ nrequests = 0
    /\ apierror_ctor = TRUE

NextOrphans ==
    \/ \E u \in UserIds, t \in Texts : SMSRequest(u, t)
    \/ \E u \in UserIds, t \in Texts : ConversationRequest(u, t)
    \/ ProviderReturns
    \/ ProviderFails
    \/ MakeDecision
    \/ SMSRespond
    \/ Converse
    \/ ConversationRespond
    \/ \E u \in UserIds : UserDelete(u)
    \/ \E u \in UserIds : UserDeleteDuring(u)

SpecOrphans == InitOrphans /\ [][NextOrphans]_vars

----------------------------------------------------------------------------
(* create_preferences as concurrent requests: each client is one request
   with its own session, and the requests interleave at the handler's
   awaits *)

PrefRequest(user_id, language) == [user_id |-> user_id, language |-> language]

\* await user_repo.get(user_id), and the 404 of a user that is not found.
PreferenceUserCheck(c, user_id, language) ==
    /\ pref_pc[c] = "start"
    /\ pref_req' = [pref_req EXCEPT ![c] = PrefRequest(user_id, language)]
    /\ IF ~user_repo_get(users, user_id)
       THEN /\ pref_http' = [pref_http EXCEPT ![c] = Http(404, "User not found", 0)]
            /\ pref_pc' = [pref_pc EXCEPT ![c] = "done"]
       ELSE /\ pref_pc' = [pref_pc EXCEPT ![c] = "user_found"]
            /\ UNCHANGED pref_http
    /\ UNCHANGED <<users, sms_logs, pc, request, attempts, waited, outcomes,
                   completion, decision, http, nrequests, apierror_ctor,
                   service_vars, config_vars, query_vars, op, endpoint,
                   conversation_vars, store_vars>>

\* await pref_repo.get_by_user_id(user_id), and the 400 of a user that has
\* preferences.
PreferenceExistingCheck(c) ==
    /\ pref_pc[c] = "user_found"
    /\ IF pref_get_by_user_id(preferences, pref_req[c].user_id) # {}
       THEN /\ pref_http' = [pref_http EXCEPT ![c] =
                    Http(400, "Preferences already exist for this user", 0)]
            /\ pref_pc' = [pref_pc EXCEPT ![c] = "done"]
       ELSE /\ pref_pc' = [pref_pc EXCEPT ![c] = "creating"]
            /\ UNCHANGED pref_http
    /\ UNCHANGED <<users, sms_logs, pc, request, attempts, waited, outcomes,
                   completion, decision, http, nrequests, apierror_ctor,
                   service_vars, config_vars, query_vars, op, endpoint,
                   conversation_vars, store_vars, pref_req>>

\* await pref_repo.create(user_id, preferences): the table has no
\* constraint on user_id but the foreign key, so the insert is accepted.
PreferenceInsert(c) ==
    /\ pref_pc[c] = "creating"
    /\ LET id == next_id({p.id : p \in preferences})
       IN /\ preferences' = preferences \cup
                 {[id |-> id, user_id |-> pref_req[c].user_id,
                   language |-> pref_req[c].language]}
          /\ pref_http' = [pref_http EXCEPT ![c] = Http(201, "", id)]
    /\ pref_pc' = [pref_pc EXCEPT ![c] = "done"]
    /\ UNCHANGED <<users, sms_logs, pc, request, attempts, waited, outcomes,
                   completion, decision, http, nrequests, apierror_ctor,
                   service_vars, config_vars, query_vars, op, endpoint,
                   conversation_vars, call_logs, profiles, pref_req>>

NextPreferences ==
    \/ \E c \in Clients, u \in UserIds, l \in Languages : PreferenceUserCheck(c, u, l)
    \/ \E c \in Clients : PreferenceExistingCheck(c)
    \/ \E c \in Clients : PreferenceInsert(c)

SpecPreferences == InitStore /\ [][NextPreferences]_vars

----------------------------------------------------------------------------
(* Properties of chat_completion *)

AllRateLimited == \A i \in DOMAIN outcomes : outcomes[i].exc = "RateLimitError"

\* C1: a call whose first two attempts fail with a rate-limit error makes a
\* third attempt, and when that attempt succeeds the call returns its
\* result, the provider having been invoked exactly 3 times.
C1_RetryThenSuccess ==
    /\ (Len(outcomes) \in {1, 2} /\ AllRateLimited) => pc = "calling"
    /\ (/\ Len(outcomes) >= 3
        /\ outcomes[1].exc = "RateLimitError"
        /\ outcomes[2].exc = "RateLimitError"
        /\ outcomes[3].exc = "")
       => /\ pc # "calling"
          /\ Len(outcomes) = 3
          /\ attempts = 3
          /\ completion = outcomes[3]

C1_Witness ==
    /\ pc = "completed"
    /\ Len(outcomes) = 3
    /\ outcomes[1].exc = "RateLimitError"
    /\ outcomes[2].exc = "RateLimitError"
    /\ outcomes[3].exc = ""
    /\ completion.exc = ""

\* C2: no call invokes the provider more than 3 times, and a call whose
\* every attempt fails with a rate-limit error ends after exactly 3
\* invocations, raising the rate-limit error.
C2_AtMostThreeAttempts ==
    /\ attempts <= 3
    /\ Len(outcomes) = attempts
    /\ (pc # "calling" /\ outcomes # <<>> /\ AllRateLimited)
       => /\ attempts = 3
          /\ completion.exc = "RateLimitError"

C2_Witness ==
    /\ pc = "completed"
    /\ attempts = 3
    /\ AllRateLimited
    /\ completion.exc = "RateLimitError"

\* C3: a call whose first attempt fails with an authentication error ends
\* with that error after one invocation of the provider.
C3_NonRetryableNotRetried ==
    (outcomes # <<>> /\ outcomes[1].exc = "AuthenticationError")
    => /\ pc # "calling"
       /\ attempts = 1
       /\ completion.exc = "AuthenticationError"

----------------------------------------------------------------------------
(* Properties of make_decision and of the rows of sms_logs *)

\* make_decision has ended, after a completion call that returned.
DecidedOn == pc = "decided" /\ completion.exc = ""

\* The Python value of a reply token; the empty text for an absent field.
reply_value(r) ==
    IF r = Absent THEN PyStr(EmptyText)
    ELSE [t |-> scalar(r).t, s |-> scalar(r).s, items |-> <<>>]

\* C4: whatever text, or no text, a completion call returns, make_decision
\* returns a decision record and raises nothing.
C4_ParserNeverRaises == DecidedOn => decision.exc = ""

\* C5: make_decision returns a decision record also when its completion
\* call ended in a failure of the provider, as after three rate-limit
\* errors.
C5_DecideNeverFails ==
    (pc = "decided" /\ completion.exc # "" /\ completion.exc \in ProviderRaises)
    => decision.exc = ""

\* C6: the decision of every record make_decision returns, and of every row
\* of sms_logs, is "yes" or "no"; an out-of-domain decision text and a text
\* that is not JSON give "no".
C6_DecisionInDomain ==
    /\ (pc = "decided" /\ decision.exc = "") => decision.decision \in {yes, no}
    /\ \A i \in DOMAIN sms_logs : sms_logs[i].decision \in {yes, no}
    /\ (/\ DecidedOn
        /\ \/ completion.response \in MalformedTexts
           \/ \E d \in OutOfDomain, r \in ReplyToks \cup {Absent} :
                 completion.response \in ObjectTextsOf(StrTok(d), r))
       => decision.exc = "" /\ decision.decision = no

C6_Witness ==
    /\ Len(sms_logs) = 1
    /\ completion.response \in ObjectTextsOf(StrTok(<<"m", "a", "y", "b", "e">>), StrTok(Sure))
    /\ sms_logs[1].decision = no
    /\ http.status = 200

C8_NotJsonIsFallback ==
    (DecidedOn /\ completion.response \in MalformedTexts)
    => decision = Decided(no, PyStr(Unable), completion.processing_time_ms)

C8_Witness ==
    /\ DecidedOn
    /\ completion.response = Text(<<Tok("word"), Tok("word")>>)
    /\ completion.processing_time_ms = MaxProcTime
    /\ decision.reply_text = PyStr(Unable)

\* C9: a payload whose decision field is a text other than "yes" and "no"
\* in any letter case gives the decision "no" with the payload's reply
\* field as the reply text, the empty text when the reply field is absent.
C9_OutOfDomainIsNo ==
    \A d \in OutOfDomain, r \in ReplyToks \cup {Absent} :
        (DecidedOn /\ completion.response \in ObjectTextsOf(StrTok(d), r))
        => /\ decision.exc = ""
           /\ decision.decision = no
           /\ decision.reply_text = reply_value(r)

C9_Witness ==
    /\ DecidedOn
    /\ completion.response \in ObjectTextsOf(StrTok(<<"m", "a", "y", "b", "e">>), Absent)
    /\ decision.decision = no
    /\ decision.reply_text = PyStr(EmptyText)

\* C10: a payload whose decision field is "yes" or "no" in any letter case
\* gives that decision in lower case with the payload's reply field as the
\* reply text, the empty text when the reply field is absent.
C10_YesNoAnyCase ==
    \A d \in YesSpellings \cup NoSpellings, r \in ReplyToks \cup {Absent} :
        (DecidedOn /\ completion.response \in ObjectTextsOf(StrTok(d), r))
        => /\ decision.exc = ""
           /\ decision.decision = (IF d \in YesSpellings THEN yes ELSE no)
           /\ decision.reply_text = reply_value(r)

C10_Witness ==
    /\ DecidedOn
    /\ completion.response \in ObjectTextsOf(StrTok(<<"Y", "E", "S">>), Absent)
    /\ decision.decision = yes
    /\ decision.reply_text = PyStr(EmptyText)

----------------------------------------------------------------------------
(* Properties of validate_response *)

\* The length of the text validate_response was given (0 without a text).
validated_len ==
    IF completion.response.none THEN 0 ELSE text_len(completion.response)

\* C20: validate_response returns true for every text whose length is at
\* least 1 and below 10000, and false for the empty text (and for no text)
\* and for every text of length 10000 or more; length 9999 is accepted and
\* length 10000 is rejected.
C20_ValidateResponseRange ==
    pc = "validated" =>
        /\ (validated_len >= 1 /\ validated_len < MaxResponseLen) => valid
        /\ (validated_len = 0 \/ validated_len >= MaxResponseLen) => ~valid
        /\ validated_len = MaxResponseLen - 1 => valid
        /\ validated_len = MaxResponseLen => ~valid

C20_Witness ==
    /\ pc = "validated"
    /\ validated_len = MaxResponseLen - 1
    /\ valid

----------------------------------------------------------------------------
(* Properties of the conversation and SMS requests *)

\* The call of chat_completion has ended and the provider timed out in
\* every attempt of it.
AllTimedOut ==
    /\ pc # "calling"
    /\ outcomes # <<>>
    /\ \A i \in DOMAIN outcomes : outcomes[i].exc = "TimeoutError"

\* C11: a call of chat_completion whose provider never answers within the
\* timeout ends, and it ends with a timeout failure of the provider-error
\* kind (an APIError).
C11_TimeoutIsProviderError == AllTimedOut => completion.exc = "APIError"

\* The reasonableness check, as the claims word it: a reply that is present,
\* not empty and shorter than 10000 characters.
Reasonable(response) ==
    /\ ~response.none
    /\ text_len(response) >= 1
    /\ text_len(response) < MaxResponseLen

\* C12: process_conversation fails with a validation error exactly when the
\* reply of the completion client fails the reasonableness check, and
\* otherwise returns the result of the client unchanged (a failure of the
\* client is propagated); after a failed check the provider is not called
\* again, the request ends as an error and no row is written.
C12_ValidationErrorIffUnreasonable ==
    [][/\ (pc = "completed" /\ pc' = "conversed") =>
            /\ attempts' = attempts
            /\ conversation' =
                   IF completion.exc = "" /\ ~Reasonable(completion.response)
                   THEN Failed("ValueError") ELSE completion
       /\ (pc = "conversed" /\ conversation.exc = "ValueError") =>
            /\ pc' = "idle"
            /\ attempts' = attempts
            /\ http'.status = 500
            /\ conversation_logs' = conversation_logs]_vars

C12_Witness ==
    /\ pc = "conversed"
    /\ conversation.exc = "ValueError"
    /\ ~completion.response.none
    /\ text_len(completion.response) = MaxResponseLen

\* C13: a conversation request that fails (the reply fails the
\* reasonableness check, the completion client fails, or the user does not
\* exist) persists no conversation log row: conversation_logs changes only
\* in a request of an existing user whose client returned a reasonable
\* reply, and never in a step that answers with an error.
C13_FailedConversationPersistsNothing ==
    [][/\ conversation_logs' # conversation_logs =>
            /\ endpoint = "conversation"
            /\ request.user_id \in users
            /\ completion.exc = ""
            /\ Reasonable(completion.response)
       /\ http'.status # 200 => conversation_logs' = conversation_logs]_vars

C13_Witness ==
    /\ pc = "idle"
    /\ endpoint = "conversation"
    /\ completion.exc = ""
    /\ ~completion.response.none
    /\ text_len(completion.response) = 0
    /\ http.status = 500
    /\ conversation_logs = <<>>

\* C14: a conversation or SMS request that completes successfully appends
\* exactly one row to its table, with the user id and the text of the
\* request and the result of the orchestrator; no request appends more
\* than one row, also when the completion client retried.
C14_OneRowPerCompletedRequest ==
    [][/\ (pc = "conversed" /\ http'.status = 200) =>
            /\ conversation_logs' =
                   Append(conversation_logs,
                          [id |-> Len(conversation_logs) + 1,
                           user_id |-> request.user_id,
                           input_text |-> request.text,
                           gpt_response |-> conversation.response,
                           processing_time_ms |-> conversation.processing_time_ms])
            /\ sms_logs' = sms_logs
       /\ (pc = "decided" /\ http'.status = 200) =>
            /\ sms_logs' =
                   Append(sms_logs,
                          [id |-> Len(sms_logs) + 1,
                           user_id |-> request.user_id,
                           incoming_text |-> request.text,
                           decision |-> decision.decision,
                           reply_text |-> decision.reply_text.s])
            /\ conversation_logs' = conversation_logs
       /\ Len(conversation_logs') + Len(sms_logs')
              <= Len(conversation_logs) + Len(sms_logs) + 1
       /\ Len(conversation_logs') + Len(sms_logs') <= nrequests']_vars

C14_Witness ==
    /\ pc = "idle"
    /\ endpoint = "conversation"
    /\ http.status = 200
    /\ attempts = MaxAttempts
    /\ Len(conversation_logs) = 1
    /\ conversation_logs[1].user_id = request.user_id
    /\ conversation_logs[1].gpt_response = completion.response

\* C16: a conversation or SMS request that names a user id without a user
\* record is answered 404 "User not found"; the request ends there: neither
\* the orchestrator nor the provider is invoked and no row is written.
C16_UnknownUserIsNotFound ==
    [][(nrequests' # nrequests /\ request'.user_id \notin users) =>
            /\ http' = Http(404, "User not found", 0)
            /\ pc' = "idle"
            /\ attempts' = 0
            /\ outcomes' = <<>>
            /\ completion' = NoCompletion
            /\ decision' \in {decision, NoDecision}
            /\ conversation' \in {conversation, NoCompletion}
            /\ conversation_logs' = conversation_logs
            /\ sms_logs' = sms_logs]_vars

C16_Witness ==
    /\ pc = "idle"
    /\ endpoint = "conversation"
    /\ nrequests > 0
    /\ request.user_id \notin users
    /\ http.status = 404
    /\ attempts = 0

\* The details of the error responses of the two handlers.
ErrorDetails ==
    {"User not found", "AI service temporarily unavailable",
     "Error processing conversation", "Error processing SMS decision"}

\* C17: when chat_completion surfaces a provider failure (an APIError of
\* any kind) to the conversation or SMS handler, the response is 503 "AI
\* service temporarily unavailable", the same for every provider failure;
\* the detail of an error response is one of the fixed texts of the
\* handlers, never the error of the provider.
C17_ProviderFailureIsGeneric503 ==
    /\ (pc = "idle" /\ completion.exc
                          \in {"APIError", "RateLimitError", "AuthenticationError",
                               "InternalServerError"})
           => http = Http(503, "AI service temporarily unavailable", 0)
    /\ (http.status \notin {0, 200}) => http.detail \in ErrorDetails

C17_Witness ==
    /\ pc = "idle"
    /\ endpoint = "conversation"
    /\ completion.exc = "AuthenticationError"
    /\ http.status = 503

----------------------------------------------------------------------------
(* Properties of the tables *)

\* Every row of the log table is still there, with the contents it had.
Kept(logs, after) ==
    \A i \in DOMAIN logs : i \in DOMAIN after /\ after[i] = logs[i]

\* C15: the rows of conversation_logs, sms_logs and call_logs are
\* append-only: no operation (conversation and SMS requests, create, update
\* and delete of users and preferences, history reads) removes or changes a
\* row that was persisted.
C15_AuditRowsAppendOnly ==
    [][/\ Kept(conversation_logs, conversation_logs')
       /\ Kept(sms_logs, sms_logs')
       /\ Kept(call_logs, call_logs')]_vars

C15_Witness ==
    /\ http = Http(500, "Error deleting user", 0)
    /\ Len(conversation_logs) + Len(sms_logs) > 0
    /\ request.user_id \in users

----------------------------------------------------------------------------
(* Properties of the shared OpenAIService *)

\* C18: get_openai_service constructs at most one OpenAIService in the
\* process, and all orchestrators that get_conversation_service and
\* get_sms_decision_service return use that one instance, also when the
\* first requests arrive concurrently.
C18_SingleSharedInstance ==
    /\ Cardinality(instances) <= 1
    /\ \A t1, t2 \in Threads :
          (dep_pc[t1] = "done" /\ dep_pc[t2] = "done")
              => service_of[t1].openai_service = service_of[t2].openai_service

\* C19: once the shutdown of the process has completed, every
\* OpenAIService that was constructed in the process has been closed, and
\* exactly once.
C19_EveryInstanceClosedOnce ==
    lifespan_pc = "stopped" => \A i \in instances : closed[i] = 1

\* The operation of the step is on an id that has no user row.
OnMissingUser(names) == op'.name \in names /\ op'.id \notin users

\* The operation of the step is on an id that has no preference row.
OnMissingPreference(names) ==
    op'.name \in names /\ \A p \in preferences : p.id # op'.id

\* C21: a lookup that matches nothing returns an absent value (404 at the
\* handler), and update and delete of an id without a record return None,
\* respectively False (404 again): nothing is raised (no 500) and the tables
\* are as they were.
C21_MissIsAbsent ==
    [][/\ OnMissingUser({"get_user", "get_user_history", "update_user", "delete_user"})
            => /\ http' = Http(404, "User not found", 0)
               /\ Tables' = Tables
       /\ OnMissingPreference({"update_preferences", "delete_preferences"})
            => /\ http' = Http(404, "Preferences not found", 0)
               /\ Tables' = Tables
       /\ (op'.name = "get_preferences"
             /\ \A p \in preferences : p.user_id # op'.id)
            => /\ http' = Http(404, "Preferences not found for this user", 0)
               /\ Tables' = Tables
       /\ \A u \in UserIds \ users' :
             /\ ~user_repo_get(users', u)
             /\ user_delete(Tables', u) = [found |-> FALSE, exc |-> "", db |-> Tables']
             /\ pref_get_by_user_id(preferences', u) # {} => has_children(Tables', u)]_vars

C21_Witness ==
    /\ op.name = "delete_user"
    /\ op.id \notin users
    /\ http = Http(404, "User not found", 0)
    /\ preferences = {}

C23_DeletedIdStaysAbsent ==
    [][(op.name = "delete_user" /\ http.status = 204) => op.id \notin users']_vars

\* C23: a created user or preference record is found by its id; a delete
\* that reports success removes the record; a lookup and a second delete
\* of an absent id report not found; and an absent id stays absent until a
\* later create is given the same id.
C23_CreateDeleteLookup ==
    [][/\ (op'.name = "create_user" /\ http'.status = 201)
            => /\ user_repo_get(users', http'.log)
               /\ profiles'[http'.log].username = op'.arg
       /\ (op'.name = "create_preferences" /\ http'.status = 201)
            => /\ pref_get(preferences', http'.log) # {}
               /\ \A p \in pref_get(preferences', http'.log) : p.user_id = op'.id
       /\ (op'.name = "delete_user" /\ http'.status = 204)
            => /\ user_repo_get(users, op'.id)
               /\ ~user_repo_get(users', op'.id)
       /\ (op'.name = "delete_preferences" /\ http'.status = 204)
            => /\ pref_get(preferences, op'.id) # {}
               /\ pref_get(preferences', op'.id) = {}
       /\ OnMissingUser({"get_user", "delete_user"}) => http'.status = 404
       /\ OnMissingPreference({"delete_preferences"}) => http'.status = 404
       /\ op'.name # "create_user" => users' \subseteq users
       /\ op'.name # "create_preferences"
            => {p.id : p \in preferences'} \subseteq {p.id : p \in preferences}]_vars

C23_Witness ==
    /\ op.name = "create_user"
    /\ http.status = 201
    /\ user_repo_get(users, http.log)
    /\ profiles[http.log].username = op.arg
    /\ op.arg = MaxUserId + 1

----------------------------------------------------------------------------
(* Properties of get_by_user_id *)

\* The rows of the table that the query asks for.
Matching == {k \in DOMAIN log_rows : log_rows[k].user_id = log_query.user_id}

\* The rows of the table that the result holds.
Returned_ids == {log_result[i].id : i \in DOMAIN log_result}

\* C24: get_by_user_id returns rows of the given user only, newest first
\* by created_at, and at most limit of them: all rows of the user when
\* there are no more than limit, and else limit rows none of which is
\* older than a row that was left out.
C24_NewestFirstUpToLimit ==
    pc = "queried" =>
        /\ \A i \in DOMAIN log_result :
              /\ log_result[i].user_id = log_query.user_id
              /\ log_result[i].id \in Matching
              /\ log_rows[log_result[i].id] = log_result[i]
        /\ \A i, j \in DOMAIN log_result :
              i < j => /\ log_result[i].created_at >= log_result[j].created_at
                       /\ log_result[i].id # log_result[j].id
        /\ Len(log_result) <= log_query.limit
        /\ Len(log_result) =
              IF Cardinality(Matching) < log_query.limit
              THEN Cardinality(Matching) ELSE log_query.limit
        /\ \A k \in Matching \ Returned_ids : \A i \in DOMAIN log_result :
              log_rows[k].created_at <= log_result[i].created_at

C24_Witness ==
    /\ pc = "queried"
    /\ log_query.limit = 1
    /\ Cardinality(Matching) = 2
    /\ Len(log_rows) = 3
    /\ Len(log_result) = 1
    /\ \E k \in Matching : log_rows[k].created_at < log_result[1].created_at

----------------------------------------------------------------------------
(* Properties of the retry settings *)

\* C25: the number of attempts chat_completion makes before it surfaces a
\* transient failure is the configured max_retries: a call that ends in
\* failure after rate-limit errors only has made settings.max_retries
\* attempts.
C25_AttemptsFollowSettings ==
    (pc # "calling" /\ outcomes # <<>> /\ AllRateLimited /\ completion.exc # "")
        => attempts = settings.max_retries

----------------------------------------------------------------------------
(* Properties of the course of one request *)

\* C26: a request goes idle -> calling -> completed -> (conversed for a
\* conversation | decided for an SMS) -> idle and takes no other step; the
\* completion client is entered from the start of a request only, so once
\* it has ended (completed, conversed, decided) no further attempt is made
\* and its result stands, whether it failed, the reply failed validation
\* or the reply did not parse; the orchestrator's result, done or failed,
\* does not change once it is made.
C26_RequestStateMachine ==
    [][/\ \/ pc = "idle" /\ pc' \in {"idle", "calling"}
          \/ pc = "calling" /\ pc' \in {"calling", "completed"}
          \/ pc = "completed" /\ endpoint = "conversation" /\ pc' = "conversed"
          \/ pc = "completed" /\ endpoint = "sms" /\ pc' = "decided"
          \/ pc \in {"conversed", "decided"} /\ pc' = "idle"
       /\ pc' = "calling" /\ pc # "calling" => pc = "idle" /\ attempts' = 0
       /\ pc \in {"completed", "conversed", "decided"} =>
            /\ attempts' = attempts
            /\ outcomes' = outcomes
            /\ completion' = completion
       /\ pc = "conversed" => conversation' = conversation
       /\ pc = "decided" => decision' = decision]_vars

C26_Witness ==
    /\ pc = "idle"
    /\ endpoint = "conversation"
    /\ http.status = 500
    /\ conversation.exc = "ValueError"
    /\ completion.exc = ""
    /\ attempts = 1
    /\ Len(outcomes) = 1

\* C27: in a request answered 200 the user was found before the completion
\* client was entered, the client was called and returned before any row
\* was written, and the step that answers 200 has the row of the request
\* in the table: no 200 without the committed row.
C27_CheckCallCommitRespond ==
    [][/\ (pc = "idle" /\ pc' = "calling") =>
            /\ request'.user_id \in users
            /\ attempts' = 0
            /\ http'.status # 200
       /\ pc \in {"calling", "completed"} =>
            /\ conversation_logs' = conversation_logs
            /\ sms_logs' = sms_logs
            /\ http' = http
       /\ (pc = "conversed" /\ http'.status = 200) =>
            /\ request.user_id \in users
            /\ attempts >= 1
            /\ completion.exc = ""
            /\ http'.log = Len(conversation_logs) + 1
            /\ http'.log \in DOMAIN conversation_logs'
            /\ conversation_logs'[http'.log].id = http'.log
            /\ conversation_logs'[http'.log].user_id = request.user_id
       /\ (pc = "decided" /\ http'.status = 200) =>
            /\ request.user_id \in users
            /\ attempts >= 1
            /\ completion.exc = ""
            /\ http'.log = Len(sms_logs) + 1
            /\ http'.log \in DOMAIN sms_logs'
            /\ sms_logs'[http'.log].id = http'.log
            /\ sms_logs'[http'.log].user_id = request.user_id]_vars

C27_Witness ==
    /\ pc = "idle"
    /\ endpoint = "sms"
    /\ http.status = 200
    /\ attempts >= 1
    /\ http.log \in DOMAIN sms_logs
    /\ sms_logs[http.log].user_id = request.user_id
    /\ request.user_id \in users

\* C29: a timed-out attempt does not end the call: after a first attempt
\* that timed out the call is still running; when the second attempt
\* returns the call returns its result; and a call whose every attempt
\* timed out has made 3 attempts.
C29_TimeoutIsRetried ==
    /\ (Len(outcomes) = 1 /\ outcomes[1].exc = "TimeoutError") => pc = "calling"
    /\ (/\ pc # "calling"
        /\ Len(outcomes) = 2
        /\ outcomes[1].exc = "TimeoutError"
        /\ outcomes[2].exc = "") => completion = outcomes[2]
    /\ AllTimedOut => attempts = MaxAttempts

----------------------------------------------------------------------------
(* Properties of the preferences of a user *)

\* C28: a user never has more than one preference record, whatever
\* create_preferences requests ran, one after another or at the same time.
C28_OnePreferencePerUser ==
    \A u \in UserIds : Cardinality(pref_get_by_user_id(preferences, u)) <= 1

----------------------------------------------------------------------------
(* Properties of the log rows of a user *)

\* C30: every row of conversation_logs and of sms_logs references a user
\* that exists, also when the user was deleted after or during the request
\* that wrote the row.
C30_LogRowsReferenceUsers ==
    /\ \A i \in DOMAIN conversation_logs : conversation_logs[i].user_id \in users
    /\ \A i \in DOMAIN sms_logs : sms_logs[i].user_id \in users

====
